---------------------------- MODULE Spec2Model ----------------------------
(***************************************************************************)
(* A model of check_ifdef.py (class IfDefChecker).                         *)
(*                                                                         *)
(* Python strings are modelled as sequences of one-character strings, so   *)
(* that strip, split, find, startswith and slicing are computed character  *)
(* by character as the interpreter computes them.  A diff is a sequence of *)
(* lines; a file's text is one string in which "\n" separates the lines.   *)
(* An operation that can raise returns a record whose exc field names the  *)
(* exception ("" when it returns normally).                                *)
(*                                                                         *)
(* Spec     one checker driven by any sequence of load_retired,            *)
(*          wrapped_files and inspect_file calls;                          *)
(* SpecDiff wrapped_files and get_added_files, each applied to a fresh     *)
(*          checker and every diff of up to MaxDiffLen lines;              *)
(* SpecScan find_ifdefs and defined_tokens, each applied to every text of  *)
(*          up to MaxTextLines lines;                                      *)
(* SpecClean clean_text applied to every text of up to MaxCleanLines       *)
(*          lines;                                                         *)
(* SpecMain one run of main, from the creation of the checker to the end   *)
(*          of the process.                                                *)
(***************************************************************************)
EXTENDS Integers, Sequences, FiniteSets, TLC

VARIABLES
    retired,     \* self._retired: list of macro names
    wrapped,     \* self._wrapped: list of file names
    additions,   \* self._additions: set of macro names
    input,       \* the argument the pure scanners are applied to
    last,        \* the last call: its name, argument and outcome
    inspected,   \* history: the (file, retired list) pairs inspect_file completed on
    calls,       \* history: number of calls made on this checker
    run          \* a run of main: its position, inputs, calls made and outcome

vars == <<retired, wrapped, additions, input, last, inspected, calls, run>>

-----------------------------------------------------------------------------
(* Python string primitives.                                               *)

\* str.isspace() for one character, as used by strip() and split()
IsSpace(c) == c \in {" ", "\t", "\n"}

\* s[:n]
Take(s, n) == SubSeq(s, 1, IF n < Len(s) THEN n ELSE Len(s))

\* s[n:]
Drop(s, n) == SubSeq(s, n + 1, Len(s))

\* s.startswith(p)
StartsWith(s, p) == Len(s) >= Len(p) /\ SubSeq(s, 1, Len(p)) = p

\* s.endswith(p)
EndsWith(s, p) ==
    Len(s) >= Len(p) /\ SubSeq(s, Len(s) - Len(p) + 1, Len(s)) = p

\* s.find(p): the lowest 0-based index at which p occurs in s, or -1
Find(s, p) ==
    LET hits == {i \in 0..(Len(s) - Len(p)) : SubSeq(s, i + 1, i + Len(p)) = p}
    IN  IF hits = {} THEN -1 ELSE CHOOSE i \in hits : \A j \in hits : i <= j

\* p in s
Contains(s, p) == Find(s, p) >= 0

\* s.lstrip()
LStrip(s) ==
    LET keep == {i \in 1..Len(s) : ~IsSpace(s[i])}
    IN  IF keep = {} THEN <<>>
        ELSE SubSeq(s, CHOOSE i \in keep : \A j \in keep : i <= j, Len(s))

\* s.rstrip()
RStrip(s) ==
    LET keep == {i \in 1..Len(s) : ~IsSpace(s[i])}
    IN  IF keep = {} THEN <<>>
        ELSE SubSeq(s, 1, CHOOSE i \in keep : \A j \in keep : i >= j)

\* s.strip()
Strip(s) == LStrip(RStrip(s))

\* s.rstrip(c) for a one-character argument c
RStripChar(s, c) ==
    LET keep == {i \in 1..Len(s) : s[i] # c}
    IN  IF keep = {} THEN <<>>
        ELSE SubSeq(s, 1, CHOOSE i \in keep : \A j \in keep : i >= j)

\* s.split(c) for a one-character separator: empty fields are kept
RECURSIVE SplitOn(_, _)
SplitOn(s, c) ==
    LET hits == {i \in 1..Len(s) : s[i] = c}
    IN  IF hits = {} THEN <<s>>
        ELSE LET k == CHOOSE i \in hits : \A j \in hits : i <= j
             IN  <<SubSeq(s, 1, k - 1)>> \o SplitOn(Drop(s, k), c)

\* s.split(): the maximal runs of non-whitespace characters
RECURSIVE Split(_)
Split(s) ==
    LET t == LStrip(s)
        ws == {i \in 1..Len(t) : IsSpace(t[i])}
    IN  IF t = <<>> THEN <<>>
        ELSE IF ws = {} THEN <<t>>
        ELSE LET k == CHOOSE i \in ws : \A j \in ws : i <= j
             IN  <<SubSeq(t, 1, k - 1)>> \o Split(Drop(t, k))

\* the elements of a list
Range(s) == {s[i] : i \in 1..Len(s)}

\* "\n".join(lines)
RECURSIVE JoinLines(_)
JoinLines(ls) ==
    IF ls = <<>> THEN <<>>
    ELSE IF Len(ls) = 1 THEN ls[1]
    ELSE ls[1] \o <<"\n">> \o JoinLines(Tail(ls))

-----------------------------------------------------------------------------
(* Words of the scanned languages, spelled as character sequences.         *)

kIfdef   == <<"#", "i", "f", "d", "e", "f">>
kIfndef  == <<"#", "i", "f", "n", "d", "e", "f">>
kIf      == <<"#", "i", "f">>
kElif    == <<"#", "e", "l", "i", "f">>
kDefined == <<"d", "e", "f", "i", "n", "e", "d">>
kOpen    == <<"/", "*">>
kClose   == <<"*", "/">>
kHeader  == <<"+", "+", "+">>
kHeaderSp == <<"+", "+", "+", " ">>
kF90     == <<".", "F", "9", "0">>
kPlusOne == <<"+", "1", ",">>
kPlusIf  == <<"+", "#", "i", "f">>

-----------------------------------------------------------------------------
(* clean_text: join continuation lines and remove C comments.              *)

\* One iteration of the loop over text.split("\n"): st is the loop state
\* (result, continuation, block_comment), raw the line as split.
CleanLine(st, raw) ==
    LET cont1 == IF EndsWith(raw, <<"\\">>) THEN TRUE ELSE st.continuation
        line1 == IF EndsWith(raw, <<"\\">>)
                     THEN RStrip(RStripChar(raw, "\\")) \o <<" ">>
                 ELSE IF raw # <<>>
                     THEN (IF st.continuation THEN LStrip(raw) ELSE raw) \o <<"\n">>
                 ELSE raw
        start == Find(line1, kOpen)
        end   == Find(line1, kClose)
    IN  IF start >= 0
            THEN IF end > 0
                     THEN [result |-> st.result \o RStrip(Take(line1, start))
                                          \o <<" ">> \o LStrip(Drop(line1, end + 2)),
                           continuation |-> FALSE,
                           block_comment |-> FALSE]
                     ELSE [result |-> st.result \o RStrip(Take(line1, start))
                                          \o <<"\n">>,
                           continuation |-> FALSE,
                           block_comment |-> TRUE]
        ELSE IF st.block_comment
            THEN IF end > 0
                     THEN [result |-> st.result \o LStrip(Drop(line1, end + 2)),
                           continuation |-> FALSE,
                           block_comment |-> FALSE]
                     \* continue: the line is dropped, continuation is not reset
                     ELSE [result |-> st.result,
                           continuation |-> cont1,
                           block_comment |-> TRUE]
        ELSE [result |-> st.result \o line1,
              continuation |-> FALSE,
              block_comment |-> FALSE]

RECURSIVE CleanLoop(_, _)
CleanLoop(st, lines) ==
    IF lines = <<>> THEN st
    ELSE CleanLoop(CleanLine(st, Head(lines)), Tail(lines))

\* the loop state clean_text ends in
CleanState(text) ==
    CleanLoop([result |-> <<>>, continuation |-> FALSE, block_comment |-> FALSE],
              SplitOn(text, "\n"))

\* clean_text without the final rstrip()
clean_text_raw(text) == CleanState(text).result

clean_text(text) == RStrip(CleanState(text).result)

-----------------------------------------------------------------------------
(* defined_tokens: the two-state walker over the tokens of one line.       *)

\* the loop body leaving the walker armed after the yield of a separate
\* "(NAME)" token
DefinedStepArmed(st, token) ==
    IF StartsWith(token, kDefined)
        THEN IF Find(token, <<"(">>) > 0
                 THEN [definition |-> FALSE,
                       yields |-> Append(st.yields,
                                    RStripChar(Drop(token, Find(token, <<"(">>) + 1), ")"))]
                 ELSE [definition |-> TRUE, yields |-> st.yields]
    ELSE IF st.definition /\ StartsWith(token, <<"(">>)
        THEN [definition |-> TRUE,
              yields |-> Append(st.yields, RStripChar(Drop(token, 1), ")"))]
    ELSE st

\* One iteration of the loop over line.split(): st is (definition, yields).
DefinedStep(st, token) ==
    IF StartsWith(token, kDefined)
        THEN IF Find(token, <<"(">>) > 0
                 THEN [definition |-> FALSE,
                       yields |-> Append(st.yields,
                                    RStripChar(Drop(token, Find(token, <<"(">>) + 1), ")"))]
                 ELSE [definition |-> TRUE, yields |-> st.yields]
    ELSE IF st.definition /\ StartsWith(token, <<"(">>)
        THEN [definition |-> FALSE,
              yields |-> Append(st.yields, RStripChar(Drop(token, 1), ")"))]
    ELSE st

RECURSIVE DefinedLoop(_, _)
DefinedLoop(st, tokens) ==
    IF tokens = <<>> THEN st
    ELSE DefinedLoop(DefinedStep(st, Head(tokens)), Tail(tokens))

\* the walker's state after the last token of the line
DefinedState(line) ==
    DefinedLoop([definition |-> FALSE, yields |-> <<>>], Split(line))

defined_tokens(line) == DefinedState(line).yields

-----------------------------------------------------------------------------
(* find_ifdefs: the macro names of every conditional directive of a text.  *)

\* find_ifdefs with no #elif branch: only #if lines reach defined_tokens
IfdefLineNoElif(raw) ==
    LET line == Strip(raw)
    IN  IF StartsWith(line, kIfdef) \/ StartsWith(line, kIfndef)
            THEN IF Len(Split(line)) >= 2
                     THEN [yields |-> <<Split(line)[2]>>, exc |-> ""]
                     ELSE [yields |-> <<>>, exc |-> "IndexError"]
        ELSE IF StartsWith(line, kIf)
            THEN [yields |-> defined_tokens(line), exc |-> ""]
        ELSE [yields |-> <<>>, exc |-> ""]

\* What one line contributes: the names it yields, and the exception raised
\* by line.split()[1] when the keyword is the line's only token.
IfdefLine(raw) ==
    LET line == Strip(raw)
    IN  IF StartsWith(line, kIfdef) \/ StartsWith(line, kIfndef)
            THEN IF Len(Split(line)) >= 2
                     THEN [yields |-> <<Split(line)[2]>>, exc |-> ""]
                     ELSE [yields |-> <<>>, exc |-> "IndexError"]
        ELSE IF StartsWith(line, kIf)
                \/ (StartsWith(line, kElif) /\ Contains(line, kDefined))
            THEN [yields |-> defined_tokens(line), exc |-> ""]
        ELSE [yields |-> <<>>, exc |-> ""]

RECURSIVE IfdefLoop(_, _)
IfdefLoop(acc, lines) ==
    IF lines = <<>> THEN [yields |-> acc, exc |-> ""]
    ELSE LET r == IfdefLine(Head(lines))
         IN  IF r.exc # "" THEN [yields |-> acc, exc |-> r.exc]
             ELSE IfdefLoop(acc \o r.yields, Tail(lines))

\* the names yielded, in order, and the exception that ended the generator
find_ifdefs(text) == IfdefLoop(<<>>, SplitOn(text, "\n"))

-----------------------------------------------------------------------------
(* pathlib.Path, as get_added_files uses it.                               *)

\* str.lower() for one character
Lower(c) ==
    LET upper == <<"A", "B", "C", "D", "E", "F", "G", "H", "I", "J", "K", "L", "M",
                   "N", "O", "P", "Q", "R", "S", "T", "U", "V", "W", "X", "Y", "Z">>
        lower == <<"a", "b", "c", "d", "e", "f", "g", "h", "i", "j", "k", "l", "m",
                   "n", "o", "p", "q", "r", "s", "t", "u", "v", "w", "x", "y", "z">>
        at    == {i \in 1..26 : upper[i] = c}
    IN  IF at = {} THEN c ELSE lower[CHOOSE i \in at : TRUE]

\* s.lower()
LowerStr(s) == [i \in 1..Len(s) |-> Lower(s[i])]

\* sep.join(parts)
RECURSIVE Join(_, _)
Join(parts, sep) ==
    IF parts = <<>> THEN <<>>
    ELSE IF Len(parts) = 1 THEN parts[1]
    ELSE parts[1] \o sep \o Join(Tail(parts), sep)

\* the components Path(token) keeps: empty and "." components are dropped
PathParts(token) ==
    LET Kept(part) == part # <<>> /\ part # <<".">>
    IN  SelectSeq(SplitOn(token, "/"), Kept)

\* the root of Path(token): "//" for exactly two leading slashes
PathRoot(token) ==
    IF StartsWith(token, <<"/", "/">>) /\ ~StartsWith(token, <<"/", "/", "/">>)
        THEN <<"/", "/">>
    ELSE IF StartsWith(token, <<"/">>) THEN <<"/">>
    ELSE <<>>

\* str(Path(token)): the value a caller sees for a yielded path
PathOf(token) ==
    IF PathRoot(token) = <<>> /\ PathParts(token) = <<>> THEN <<".">>
    ELSE PathRoot(token) \o Join(PathParts(token), <<"/">>)

\* Path(token).suffix: from the last "." of the final component, unless that
\* "." is the component's first or last character
PathSuffix(token) ==
    LET parts == PathParts(token)
        name  == IF parts = <<>> THEN <<>> ELSE parts[Len(parts)]
        dots  == {i \in 1..Len(name) : name[i] = "."}
        k     == CHOOSE i \in dots : \A j \in dots : i >= j
    IN  IF dots = {} THEN <<>>
        ELSE IF 1 < k /\ k < Len(name) THEN SubSeq(name, k, Len(name))
        ELSE <<>>

\* IfDefChecker.code_extensions
code_extensions ==
    { <<".", "c">>, <<".", "h">>, <<".", "f">>,
      <<".", "f", "9", "0">>, <<".", "f", "9", "5">> }

-----------------------------------------------------------------------------
(* get_added_files: the files of a diff that gained lines.                 *)

\* One iteration of the loop over the diff: st is (named, name, code_file,
\* yields, exc); named is FALSE while name is None.
AddedStep(st, line) ==
    IF StartsWith(line, kHeader)
        THEN IF Len(Split(line)) >= 2
                 THEN [st EXCEPT !.named = TRUE,
                                 !.name = PathOf(Split(line)[2]),
                                 !.code_file =
                                     LowerStr(PathSuffix(Split(line)[2])) \in code_extensions]
                 ELSE [st EXCEPT !.exc = "IndexError"]
    ELSE IF StartsWith(line, <<"+">>) /\ st.named /\ st.code_file
        THEN [st EXCEPT !.yields = Append(st.yields, st.name),
                        !.named = FALSE,
                        !.name = <<>>,
                        !.code_file = FALSE]
    ELSE st

RECURSIVE AddedLoop(_, _)
AddedLoop(st, lines) ==
    IF lines = <<>> \/ st.exc # "" THEN st
    ELSE AddedLoop(AddedStep(st, Head(lines)), Tail(lines))

\* the paths yielded, in order, and the exception that ended the generator
get_added_files(diff) ==
    LET st == AddedLoop([named |-> FALSE, name |-> <<>>, code_file |-> FALSE,
                         yields |-> <<>>, exc |-> ""], diff)
    IN  [yields |-> st.yields, exc |-> st.exc]

-----------------------------------------------------------------------------
(* wrapped_files: the files whose first line has become a new #if.         *)

\* The while loop from index i (0-based, as in the code) with the list built
\* so far; diff[i] of the code is diff[i + 1] here.
RECURSIVE WrapLoop(_, _, _)
WrapLoop(diff, i, acc) ==
    IF ~(i < Len(diff) - 2) THEN [wrapped |-> acc, exc |-> ""]
    ELSE LET line  == Strip(diff[i + 1])
             hunks == Split(diff[i + 2])
         IN  IF StartsWith(line, kHeaderSp) /\ Contains(line, kF90)
                 THEN IF Len(hunks) < 3
                          THEN [wrapped |-> acc, exc |-> "IndexError"]
                      ELSE IF StartsWith(hunks[3], kPlusOne)
                              /\ StartsWith(diff[i + 3], kPlusIf)
                          THEN WrapLoop(diff, i + 2, Append(acc, Split(line)[2]))
                      ELSE WrapLoop(diff, i + 2, acc)
             ELSE WrapLoop(diff, i + 1, acc)

\* self._wrapped as the call leaves it, and the exception it raised
wrapped_files(diff) == WrapLoop(diff, 0, <<>>)

-----------------------------------------------------------------------------
(* load_retired and inspect_file.                                          *)

\* self._retired after load_retired on a file holding text
load_retired(text) ==
    LET lines == SplitOn(text, "\n")
        stripped == [i \in 1..Len(lines) |-> Strip(lines[i])]
        NonBlank(line) == line # <<>>
    IN  SelectSeq(stripped, NonBlank)

\* the loop without the test "macro in self._retired"
InspectLoopAll(macros, retiredList, found) == found \cup Range(macros)

\* The loop of inspect_file over the macros found: the local set retired.
RECURSIVE InspectLoop(_, _, _)
InspectLoop(macros, retiredList, found) ==
    IF macros = <<>> THEN found
    ELSE InspectLoop(Tail(macros), retiredList,
                     IF Head(macros) \in Range(retiredList)
                         THEN found \cup {Head(macros)}
                         ELSE found)

\* inspect_file returning whether the accumulator, not the file, is clean
inspect_file_acc(text, retiredList) ==
    LET scan  == find_ifdefs(clean_text(text))
        found == InspectLoop(scan.yields, retiredList, {})
    IN  [found |-> found,
         ret |-> (Cardinality(additions \cup found) = 0),
         exc |-> scan.exc]

\* inspect_file on a file holding text: the local set of retired macros, the
\* value returned, and the exception find_ifdefs raised while being consumed
inspect_file(text, retiredList) ==
    LET scan  == find_ifdefs(clean_text(text))
        found == InspectLoop(scan.yields, retiredList, {})
    IN  [found |-> found, ret |-> (Cardinality(found) = 0), exc |-> scan.exc]

\* bool(value) for a list or a set: non-empty
Truthy(value) ==
    IF value.type = "list" THEN Len(value.items) # 0
    ELSE Cardinality(value.items) # 0

\* a or b: the first operand when it is truthy, else the second
PyOr(a, b) == IF Truthy(a) THEN a ELSE b

\* a and b, in place of a or b
errorsAnd ==
    LET a == [type |-> "list", items |-> wrapped]
        b == [type |-> "set", items |-> additions]
    IN  IF Truthy(a) THEN b ELSE a

\* the errors property: the value of self._wrapped or self._additions
errors ==
    PyOr([type |-> "list", items |-> wrapped],
         [type |-> "set", items |-> additions])

-----------------------------------------------------------------------------
(* The inputs the checks draw from.                                        *)

\* Bounds of the model.
MaxCalls == 4

MaxDiffLen == 4

MaxTextLines == 2

MaxCleanLines == 3

\* Macro names.
mA == <<"A">>

mB == <<"B">>

mAB == <<"A", "B">>

mE == <<"E">>

mH == <<"H">>

\* Files of retired macros (the text load_retired reads).
\* 'A\n'
RetiredA == <<"A", "\n">>

\* ' B\n\nAB \n'
RetiredB == <<" ", "B", "\n", "\n", "A", "B", " ", "\n">>

\* '\tE\n \nH'
RetiredC == <<"\t", "E", "\n", " ", "\n", "H">>

RetiredSources == {RetiredA, RetiredB, RetiredC}

\* Source files (the text inspect_file reads).
\* '#ifdef A\n#ifdef AB\n#ifdef A'
FileTwice ==
    << "#", "i", "f", "d", "e", "f", " ", "A", "\n", "#", "i", "f", "d",
       "e", "f", " ", "A", "B", "\n", "#", "i", "f", "d", "e", "f", " ",
       "A" >>

\* '#if defined(B) && defined (A)'
FileDefined ==
    << "#", "i", "f", " ", "d", "e", "f", "i", "n", "e", "d", "(", "B",
       ")", " ", "&", "&", " ", "d", "e", "f", "i", "n", "e", "d", " ",
       "(", "A", ")" >>

\* '/*\n#ifdef A\n */\n#ifndef AB'
FileComment ==
    << "/", "*", "\n", "#", "i", "f", "d", "e", "f", " ", "A", "\n", " ",
       "*", "/", "\n", "#", "i", "f", "n", "d", "e", "f", " ", "A", "B" >>

\* '#ifdef A\n#ifdef'
FileBare ==
    << "#", "i", "f", "d", "e", "f", " ", "A", "\n", "#", "i", "f", "d",
       "e", "f" >>

SourceFiles == {FileTwice, FileDefined, FileComment, FileBare}

\* Lines of unified diffs.
\* '+++ a.F90'
dF90 == <<"+", "+", "+", " ", "a", ".", "F", "9", "0">>

\* '+++ r.txt'
dTxt == <<"+", "+", "+", " ", "r", ".", "t", "x", "t">>

\* '+++ d.F90.h'
dF90h == <<"+", "+", "+", " ", "d", ".", "F", "9", "0", ".", "h">>

\* '+++ t.F90\t(w c)'
dSvn ==
    << "+", "+", "+", " ", "t", ".", "F", "9", "0", "\t", "(", "w", " ",
       "c", ")" >>

\* '+++'
dBare == <<"+", "+", "+">>

\* '@@ -1,2 +1,4 @@'
dHunk1 ==
    << "@", "@", " ", "-", "1", ",", "2", " ", "+", "1", ",", "4", " ",
       "@", "@" >>

\* '@@ -3 +3,2 @@'
dHunk3 == <<"@", "@", " ", "-", "3", " ", "+", "3", ",", "2", " ", "@", "@">>

\* '+#if X'
dIf == <<"+", "#", "i", "f", " ", "X">>

\* '+x'
dAdd == <<"+", "x">>

\* ''
dBlank == <<>>

DiffLines == {dF90, dTxt, dF90h, dSvn, dBare, dHunk1, dHunk3, dIf, dAdd, dBlank}

\* Every diff of at most MaxDiffLen lines.
AllDiffs == UNION {[1..n -> DiffLines] : n \in 0..MaxDiffLen}

\* The diffs the checker's state machine is driven with.
DiffWrapped == <<dF90, dHunk1, dIf, dAdd>>

DiffNotWrapped == <<dF90, dHunk3, dIf>>

DiffRaises == <<dF90, dHunk1, dIf, dF90, dBlank, dAdd>>

CheckerDiffs == {<<>>, DiffWrapped, DiffNotWrapped, DiffRaises}

\* The branch diffs and the working copies a run of main is given.
DiffTwoFiles == <<dF90, dHunk3, dAdd, dF90h, dHunk3, dAdd>>

DiffHeaderBare == <<dF90, dHunk3, dAdd, dBare>>

DiffText == <<dTxt, dHunk1, dAdd>>

MainDiffs == CheckerDiffs \cup {DiffTwoFiles, DiffHeaderBare, DiffText}

\* 'a.F90'
pA == <<"a", ".", "F", "9", "0">>

\* 'd.F90.h'
pD == <<"d", ".", "F", "9", "0", ".", "h">>

MainPaths == {pA, pD}

\* Lines of source text for the directive scanners.
\* '#ifdef A'
sIfdef == <<"#", "i", "f", "d", "e", "f", " ", "A">>

\* '  #ifndef AB'
sIfndef == <<" ", " ", "#", "i", "f", "n", "d", "e", "f", " ", "A", "B">>

\* '#if defined (E)'
sIfDef ==
    << "#", "i", "f", " ", "d", "e", "f", "i", "n", "e", "d", " ", "(",
       "E", ")" >>

\* '#elif defined (H)'
sElifDef ==
    << "#", "e", "l", "i", "f", " ", "d", "e", "f", "i", "n", "e", "d",
       " ", "(", "H", ")" >>

\* '#elif defined(E)'
sElifCall ==
    << "#", "e", "l", "i", "f", " ", "d", "e", "f", "i", "n", "e", "d",
       "(", "E", ")" >>

\* '#if !defined(A)'
sIfNot ==
    << "#", "i", "f", " ", "!", "d", "e", "f", "i", "n", "e", "d", "(",
       "A", ")" >>

\* '#if defined(A) && defined(E)'
sIfTwo ==
    << "#", "i", "f", " ", "d", "e", "f", "i", "n", "e", "d", "(", "A",
       ")", " ", "&", "&", " ", "d", "e", "f", "i", "n", "e", "d", "(",
       "E", ")" >>

\* '#if defined (B) || defined(A)'
sIfMixed ==
    << "#", "i", "f", " ", "d", "e", "f", "i", "n", "e", "d", " ", "(",
       "B", ")", " ", "|", "|", " ", "d", "e", "f", "i", "n", "e", "d",
       "(", "A", ")" >>

\* '|| defined (H)'
sOrDef ==
    << "|", "|", " ", "d", "e", "f", "i", "n", "e", "d", " ", "(", "H", ")" >>

\* '#if (defined(B) || X)'
sIfParen ==
    << "#", "i", "f", " ", "(", "d", "e", "f", "i", "n", "e", "d", "(",
       "B", ")", " ", "|", "|", " ", "X", ")" >>

\* '#elif X'
sElif == <<"#", "e", "l", "i", "f", " ", "X">>

\* '#if X > 1'
sIfPlain == <<"#", "i", "f", " ", "X", " ", ">", " ", "1">>

\* 'x = 1'
sOther == <<"x", " ", "=", " ", "1">>

\* '#ifdef'
sBare == <<"#", "i", "f", "d", "e", "f">>

ScanLines == {sIfdef, sIfndef, sIfDef, sElifDef, sElifCall,
              sIfNot, sIfTwo, sIfMixed, sOrDef, sIfParen, sElif,
              sIfPlain, sOther, sBare}

\* Every text of at most MaxTextLines lines, joined by "\n".
AllTexts ==
    {JoinLines(ls) : ls \in UNION {[1..n -> ScanLines] : n \in 1..MaxTextLines}}

\* Lines of source text for clean_text.
\* 'abc'
cAbc == <<"a", "b", "c">>

\* '  d e'
cIndent == <<" ", " ", "d", " ", "e">>

\* ''
cBlank == <<>>

\* ' '
cWs == <<" ">>

\* 'a 1 \\'
cCont == <<"a", " ", "1", " ", "\\">>

\* '  b \\'
cContIndent == <<" ", " ", "b", " ", "\\">>

\* 'a /* c */ 1'
cOne == <<"a", " ", "/", "*", " ", "c", " ", "*", "/", " ", "1">>

\* 'a /* c */'
cOneEnd == <<"a", " ", "/", "*", " ", "c", " ", "*", "/">>

\* 'a /* c */ b /* d */ e'
cTwo ==
    << "a", " ", "/", "*", " ", "c", " ", "*", "/", " ", "b", " ", "/",
       "*", " ", "d", " ", "*", "/", " ", "e" >>

\* 'a /* f'
cOpen == <<"a", " ", "/", "*", " ", "f">>

\* ' */ z'
cClose == <<" ", "*", "/", " ", "z">>

\* '*/ z'
cClose0 == <<"*", "/", " ", "z">>

CleanLines == {cAbc, cIndent, cBlank, cWs, cCont, cContIndent, cOne, cOneEnd,
               cTwo, cOpen, cClose, cClose0}

\* Every text of at most MaxCleanLines lines, joined by "\n".
AllCleanTexts ==
    {JoinLines(ls) : ls \in UNION {[1..n -> CleanLines] : n \in 1..MaxCleanLines}}

-----------------------------------------------------------------------------
(* The checker as a state machine.                                         *)

NoCall == [op |-> "init", arg |-> <<>>, ret |-> <<>>, exc |-> ""]

\* no run of main is under way
NoRun == [pc |-> "none"]

\* IfDefChecker.__init__
Fresh ==
    /\ retired = <<>>
    /\ wrapped = <<>>
    /\ additions = {}
    /\ last = NoCall
    /\ inspected = {}
    /\ calls = 0

\* load_retired without `self._retired = []`: the lines are appended to the
\* list already loaded
LoadRetiredAppend(text) ==
    /\ calls < MaxCalls
    /\ retired' = retired \o load_retired(text)
    /\ last' = [op |-> "load_retired", arg |-> text, ret |-> <<>>, exc |-> ""]
    /\ calls' = calls + 1
    /\ UNCHANGED <<wrapped, additions, input, inspected>>

\* checker.load_retired(source), source holding text
LoadRetired(text) ==
    /\ calls < MaxCalls
    /\ retired' = load_retired(text)
    /\ last' = [op |-> "load_retired", arg |-> text, ret |-> <<>>, exc |-> ""]
    /\ calls' = calls + 1
    /\ UNCHANGED <<wrapped, additions, input, inspected>>

\* checker.wrapped_files(diff): self._wrapped is rebuilt and keeps what was
\* appended before an exception
WrappedFiles(diff) ==
    LET r == wrapped_files(diff)
    IN  /\ calls < MaxCalls
        /\ wrapped' = r.wrapped
        /\ last' = [op |-> "wrapped_files", arg |-> diff,
                    ret |-> Len(r.wrapped), exc |-> r.exc]
        /\ calls' = calls + 1
        /\ UNCHANGED <<retired, additions, input, inspected>>

\* list(checker.get_added_files(diff)): the generator reads no field of the
\* checker but code_extensions and changes none
GetAddedFiles(diff) ==
    LET r == get_added_files(diff)
    IN  /\ calls < MaxCalls
        /\ last' = [op |-> "get_added_files", arg |-> diff,
                    ret |-> r.yields, exc |-> r.exc]
        /\ calls' = calls + 1
        /\ UNCHANGED <<retired, wrapped, additions, input, inspected>>

\* inspect_file assigning the file's set to self._additions instead of
\* uniting it
InspectFileAssign(text) ==
    LET r == inspect_file(text, retired)
    IN  /\ calls < MaxCalls
        /\ additions' = IF r.exc = "" THEN r.found ELSE additions
        /\ inspected' = IF r.exc = ""
                            THEN inspected \cup {[file |-> text, list |-> retired]}
                            ELSE inspected
        /\ last' = [op |-> "inspect_file", arg |-> text, ret |-> r.ret,
                    exc |-> r.exc, before |-> additions]
        /\ calls' = calls + 1
        /\ UNCHANGED <<retired, wrapped, input>>

\* checker.inspect_file(source), source holding text: an exception leaves
\* self._additions as it was
InspectFile(text) ==
    LET r == inspect_file(text, retired)
    IN  /\ calls < MaxCalls
        /\ additions' = IF r.exc = "" THEN additions \cup r.found ELSE additions
        /\ inspected' = IF r.exc = ""
                            THEN inspected \cup {[file |-> text, list |-> retired]}
                            ELSE inspected
        /\ last' = [op |-> "inspect_file", arg |-> text, ret |-> r.ret,
                    exc |-> r.exc, before |-> additions]
        /\ calls' = calls + 1
        /\ UNCHANGED <<retired, wrapped, input>>

\* list(checker.find_ifdefs(text))
FindIfdefs(text) ==
    LET r == find_ifdefs(text)
    IN  /\ calls < MaxCalls
        /\ last' = [op |-> "find_ifdefs", arg |-> text,
                    ret |-> r.yields, exc |-> r.exc]
        /\ calls' = calls + 1
        /\ UNCHANGED <<retired, wrapped, additions, input, inspected>>

\* list(checker.defined_tokens(line))
DefinedTokens(line) ==
    /\ calls < MaxCalls
    /\ last' = [op |-> "defined_tokens", arg |-> line,
                ret |-> defined_tokens(line), exc |-> ""]
    /\ calls' = calls + 1
    /\ UNCHANGED <<retired, wrapped, additions, input, inspected>>

\* checker.clean_text(text): the value returned and the comment flag the
\* loop ends with
CleanText(text) ==
    /\ calls < MaxCalls
    /\ last' = [op |-> "clean_text", arg |-> text, ret |-> clean_text(text),
                exc |-> "", block |-> CleanState(text).block_comment]
    /\ calls' = calls + 1
    /\ UNCHANGED <<retired, wrapped, additions, input, inspected>>

\* One checker driven by any sequence of calls.
Init == Fresh /\ input = <<>> /\ run = NoRun

Next ==
    \/ (\E text \in RetiredSources : LoadRetired(text)) /\ UNCHANGED run
    \/ (\E diff \in CheckerDiffs : WrappedFiles(diff)) /\ UNCHANGED run
    \/ (\E text \in SourceFiles : InspectFile(text)) /\ UNCHANGED run

Spec == Init /\ [][Next]_vars

\* The diff scanners, each applied to a fresh checker and any diff.
InitDiff == Fresh /\ input \in AllDiffs /\ run = NoRun

NextDiff ==
    \/ calls = 0 /\ WrappedFiles(input) /\ UNCHANGED run
    \/ calls = 0 /\ GetAddedFiles(input) /\ UNCHANGED run

SpecDiff == InitDiff /\ [][NextDiff]_vars

\* The directive scanners, each applied to any text.
InitScan == Fresh /\ input \in AllTexts /\ run = NoRun

NextScan ==
    \/ calls = 0 /\ FindIfdefs(input) /\ UNCHANGED run
    \/ calls = 0 /\ DefinedTokens(input) /\ UNCHANGED run

SpecScan == InitScan /\ [][NextScan]_vars

\* clean_text applied to any text.
InitClean == Fresh /\ input \in AllCleanTexts /\ run = NoRun

NextClean == calls = 0 /\ CleanText(input) /\ UNCHANGED run

SpecClean == InitClean /\ [][NextClean]_vars

\* main(argv), from the creation of the checker: one step per statement.
\* The retired file and the files of the working copy are what the run
\* finds on disk; the diff is whatever the branch diff provider returns.
MainLoadRetired ==
    /\ run.pc = "start"
    /\ LoadRetired(run.retiredFile)
    /\ run' = [run EXCEPT !.pc = "loaded",
                          !.trace = Append(@, [op |-> "load_retired",
                                               arg |-> run.retiredFile])]

\* diff_lines = list(GitBDiff().diff(prefix=False))
MainDiff(diff) ==
    /\ run.pc = "loaded"
    /\ run' = [run EXCEPT !.pc = "diffed", !.diff = diff]
    /\ UNCHANGED <<retired, wrapped, additions, input, last, inspected, calls>>

\* checker.wrapped_files(diff_lines): an exception ends the run
MainWrappedFiles ==
    /\ run.pc = "diffed"
    /\ WrappedFiles(run.diff)
    /\ run' = [run EXCEPT
                  !.pc = IF last'.exc = "" THEN "wrapped" ELSE "ended",
                  !.outcome = last'.exc,
                  !.trace = Append(@, [op |-> "wrapped_files",
                                       arg |-> run.diff])]

\* One turn of the for loop: the generator yields its next path and the
\* body inspects the file of that name; an exception ends the run.
MainInspectFile ==
    LET added == get_added_files(run.diff)
    IN  /\ run.pc = "wrapped"
        /\ run.yielded < Len(added.yields)
        /\ InspectFile(run.files[added.yields[run.yielded + 1]])
        /\ run' = [run EXCEPT
                      !.pc = IF last'.exc = "" THEN "wrapped" ELSE "ended",
                      !.outcome = last'.exc,
                      !.yielded = @ + 1,
                      !.trace = Append(@, [op |-> "inspect_file",
                                           arg |-> added.yields[run.yielded + 1]])]

\* The generator is exhausted, or raises where it would have read on; then
\* `if checker.errors: raise SystemExit(1)`, else the closing log message.
MainErrors ==
    LET added == get_added_files(run.diff)
    IN  /\ run.pc = "wrapped"
        /\ run.yielded = Len(added.yields)
        /\ run' = IF added.exc # ""
                      THEN [run EXCEPT !.pc = "ended", !.outcome = added.exc]
                      ELSE [run EXCEPT
                              !.pc = "ended",
                              !.outcome = IF Truthy(errors) THEN "SystemExit(1)"
                                                            ELSE "returned",
                              !.log = IF Truthy(errors) THEN <<>>
                                      ELSE <<"no problems found">>,
                              !.trace = Append(@, [op |-> "errors",
                                                   arg |-> <<>>])]
        /\ UNCHANGED <<retired, wrapped, additions, input, last, inspected, calls>>

InitMain ==
    /\ Fresh
    /\ input = <<>>
    /\ run \in [pc : {"start"}, retiredFile : RetiredSources,
                 files : [MainPaths -> SourceFiles], diff : {<<>>},
                 yielded : {0}, trace : {<<>>}, outcome : {""}, log : {<<>>}]

NextMain ==
    \/ MainLoadRetired
    \/ \E diff \in MainDiffs : MainDiff(diff)
    \/ MainWrappedFiles
    \/ MainInspectFile
    \/ MainErrors

SpecMain == InitMain /\ [][NextMain]_vars

-----------------------------------------------------------------------------
(* Properties of the checker's state (specification Spec).                 *)

\* C1: in every reachable state the errors property is truthy if and only
\* if the stored wrapped-file list is non-empty or the cross-file accumulator
\* is non-empty.
C1_ErrorsIffWrappedOrAdditions ==
    Truthy(errors) <=> (wrapped # <<>> \/ additions # {})

\* C1 witness: a wrapped file alone, with nothing loaded and nothing
\* accumulated, makes errors truthy.
C1_Witness ==
    /\ last.op = "wrapped_files"
    /\ wrapped # <<>>
    /\ retired = <<>>
    /\ additions = {}
    /\ Truthy(errors)

\* the macro names extracted from a file's normalized text
MacrosOf(text) == Range(find_ifdefs(clean_text(text)).yields)

Matched(h) == MacrosOf(h.file) \cap Range(h.list)

\* C3: the accumulator only grows, and after any sequence of calls it equals
\* the union, over the set of inspections completed, of the retired macros
\* matched in each file (a set: order and repetition of the inspections do
\* not matter, and each macro is held once).
C3_AccumulatorIsGrowingUnion ==
    [][ /\ additions \subseteq additions'
        /\ additions' = UNION {Matched(h) : h \in inspected'} ]_vars

\* C3 witness: two inspections have each contributed a different macro.
C3_Witness ==
    /\ last.op = "inspect_file"
    /\ last.exc = ""
    /\ last.before # {}
    /\ last.before # additions
    /\ additions = {mB, mAB}
    /\ Cardinality(inspected) >= 2

\* C4 as stated: every macro in the accumulator is a member of the currently
\* loaded retired list.
C4_AccumulatorWithinCurrentList == additions \subseteq Range(retired)

\* C4 amended: every macro in the accumulator was matched by a completed
\* inspection against the retired list loaded at that time; so the
\* accumulator lies within the current list whenever every inspection ran
\* under the list that is loaded now.
C4_AccumulatorWithinListAtInspection ==
    /\ \A m \in additions :
           \E h \in inspected : m \in MacrosOf(h.file) /\ m \in Range(h.list)
    /\ (\A h \in inspected : h.list = retired) => additions \subseteq Range(retired)

\* C4 witness: macros were accumulated and load_retired then replaced the
\* list they were matched against.
C4_Witness ==
    /\ last.op = "load_retired"
    /\ additions # {}
    /\ \E h \in inspected : h.list # retired

-----------------------------------------------------------------------------
(* Properties of the diff scanners (specification SpecDiff).               *)

\* a "+++ " header naming an .F90 file
IsF90Header(line) ==
    /\ StartsWith(line, kHeaderSp)
    /\ Len(Split(line)) >= 2
    /\ EndsWith(Split(line)[2], kF90)

\* a hunk header whose new-file range token starts with "+1,"
IsHunkAtLineOne(line) ==
    /\ Len(Split(line)) >= 3
    /\ StartsWith(Split(line)[3], kPlusOne)

\* the files the claim has wrapped_files record, in diff order
ClaimWrapped(diff) ==
    LET Wraps(i) == /\ i + 2 <= Len(diff)
                    /\ IsF90Header(diff[i])
                    /\ IsHunkAtLineOne(diff[i + 1])
                    /\ StartsWith(diff[i + 2], kPlusIf)
        at == SelectSeq([i \in 1..Len(diff) |-> i], Wraps)
    IN  [k \in 1..Len(at) |-> Split(diff[at[k]])[2]]

\* C5: wrapped_files(diff) records, in diff order, exactly the files whose
\* "+++ " header naming an .F90 file is immediately followed by a hunk header
\* whose new-file range token starts with "+1," and then by a line beginning
\* "+#if"; it returns the number of files recorded (0 when there is none).
C5_WrappedFilesRecordsExactly ==
    last.op = "wrapped_files"
        => /\ last.exc = ""
           /\ wrapped = ClaimWrapped(last.arg)
           /\ last.ret = Len(ClaimWrapped(last.arg))

\* the paths the claim has get_added_files yield, in diff order: one for each
\* "+++" header with a path of a recognised suffix that has a line starting
\* with "+" after it and before the next "+++" header
ClaimAdded(diff) ==
    LET IsHeader(i) == StartsWith(diff[i], kHeader)
        Gains(i) ==
            /\ IsHeader(i)
            /\ Len(Split(diff[i])) >= 2
            /\ LowerStr(PathSuffix(Split(diff[i])[2])) \in code_extensions
            /\ \E j \in (i + 1)..Len(diff) :
                   /\ StartsWith(diff[j], <<"+">>)
                   /\ \A k \in (i + 1)..j : ~IsHeader(k)
        at == SelectSeq([i \in 1..Len(diff) |-> i], Gains)
    IN  [k \in 1..Len(at) |-> PathOf(Split(diff[at[k]])[2])]

\* C8: for any diff get_added_files yields at most one path per "+++"
\* header: the header's path, at the first later line starting with "+"
\* before the next "+++" header, and only if the path's lower-cased suffix is
\* a recognised one; nothing else is yielded.
C8_AddedFilesYieldsOncePerHeader ==
    last.op = "get_added_files" => last.ret = ClaimAdded(last.arg)

\* C9: wrapped_files raises no exception for any finite sequence of diff
\* lines; a header followed by a line that is no well-formed hunk header is
\* simply not recorded.
C9_WrappedFilesNeverRaises ==
    last.op = "wrapped_files" => last.exc = ""

\* C10: get_added_files raises no exception for any finite sequence of diff
\* lines; a "+++" line with no path token produces no finding and does not
\* abort the scan.
C10_AddedFilesNeverRaises ==
    last.op = "get_added_files" => last.exc = ""

-----------------------------------------------------------------------------
(* Properties of the directive scanners (specification SpecScan).          *)

\* the macros named inside a defined(...) or defined (...) call of a line:
\* the text between the parenthesis that follows the word and the next ")"
NamedInDefined(line) ==
    LET n == Len(line)
        Word(p) == p + 6 <= n /\ SubSeq(line, p, p + 6) = kDefined
        OpenAt(p) == IF p + 7 <= n /\ line[p + 7] = "(" THEN p + 7
                     ELSE IF p + 8 <= n /\ line[p + 7] = " " /\ line[p + 8] = "("
                         THEN p + 8
                     ELSE 0
        CloseAfter(q) == {c \in (q + 1)..n : line[c] = ")"}
        First(cs) == CHOOSE c \in cs : \A d \in cs : c <= d
    IN  {SubSeq(line, OpenAt(p) + 1, First(CloseAfter(OpenAt(p))) - 1) :
            p \in {p \in 1..n : /\ Word(p)
                                /\ OpenAt(p) # 0
                                /\ CloseAfter(OpenAt(p)) # {}}}

\* C6: for every line that begins with "#if" after trimming, defined_tokens
\* yields every macro named inside a defined(...) or defined (...) call on
\* that line, whatever text surrounds the call.
C6_DefinedTokensYieldsEveryNamedMacro ==
    (/\ last.op = "defined_tokens"
     /\ "\n" \notin Range(last.arg)
     /\ StartsWith(Strip(last.arg), kIf))
        => NamedInDefined(last.arg) \subseteq Range(last.ret)

\* what the claim has one source line contribute to find_ifdefs
ClaimLine(raw) ==
    LET line == LStrip(raw)
    IN  IF StartsWith(line, kIfdef) \/ StartsWith(line, kIfndef)
            THEN <<Split(line)[2]>>
        ELSE IF StartsWith(line, kIf)
            THEN defined_tokens(line)
        ELSE IF StartsWith(line, kElif) /\ Contains(line, kDefined)
            THEN defined_tokens(line)
        ELSE <<>>

RECURSIVE ClaimLines(_)
ClaimLines(lines) ==
    IF lines = <<>> THEN <<>>
    ELSE ClaimLine(Head(lines)) \o ClaimLines(Tail(lines))

\* every #ifdef and #ifndef line of the text has a token after the keyword
KeywordsHaveNames(text) ==
    \A raw \in Range(SplitOn(text, "\n")) :
        (StartsWith(LStrip(raw), kIfdef) \/ StartsWith(LStrip(raw), kIfndef))
            => Len(Split(raw)) >= 2

-----------------------------------------------------------------------------
(* Properties of clean_text (specification SpecClean).                     *)

\* The lines of a text as clean_text sees them.
LinesOf(text) == SplitOn(text, "\n")

\* a line that takes part in a continuation
IsContinued(line) == EndsWith(line, <<"\\">>)

\* a line that opens a comment it does not close
OpensBlock(line) == Contains(line, kOpen) /\ ~Contains(line, kClose)

\* a line that holds a comment opened and closed on it
HasInlineComment(line) == Contains(line, kOpen) /\ Contains(line, kClose)

\* The text of a multi-line comment as the claim describes it: outside a
\* comment a line is kept, an opening line keeps what precedes the opener;
\* inside a comment every line is dropped until one holds the closer at any
\* column, and that line keeps what follows the closer.
BlockStep(st, line) ==
    IF ~st.inComment
        THEN IF Contains(line, kOpen)
                 THEN [out |-> st.out \o RStrip(Take(line, Find(line, kOpen)))
                                      \o <<"\n">>,
                       inComment |-> TRUE]
                 ELSE [out |-> st.out \o line \o <<"\n">>, inComment |-> FALSE]
    ELSE IF Contains(line, kClose)
        THEN [out |-> st.out
                        \o LStrip(Drop(line, Find(line, kClose) + 2) \o <<"\n">>),
              inComment |-> FALSE]
    ELSE st

RECURSIVE BlockLoop(_, _)
BlockLoop(st, lines) ==
    IF lines = <<>> THEN st
    ELSE BlockLoop(BlockStep(st, Head(lines)), Tail(lines))

ClaimBlock(text) ==
    RStrip(BlockLoop([out |-> <<>>, inComment |-> FALSE], LinesOf(text)).out)

\* A closer is met only inside a comment.
RECURSIVE ClosersInside(_, _)
ClosersInside(inComment, lines) ==
    IF lines = <<>> THEN TRUE
    ELSE IF ~inComment
        THEN ~Contains(Head(lines), kClose)
             /\ ClosersInside(Contains(Head(lines), kOpen), Tail(lines))
    ELSE ClosersInside(~Contains(Head(lines), kClose), Tail(lines))

\* The texts of the claim: non-blank lines with no continuation and no
\* comment closed on its opening line, at least one of them opening a comment.
IsBlockText(text) ==
    /\ \A i \in 1..Len(LinesOf(text)) :
          /\ LinesOf(text)[i] # <<>>
          /\ ~IsContinued(LinesOf(text)[i])
          /\ ~HasInlineComment(LinesOf(text)[i])
    /\ \E i \in 1..Len(LinesOf(text)) : OpensBlock(LinesOf(text)[i])
    /\ ClosersInside(FALSE, LinesOf(text))

\* C11: once a line opens a comment and does not close it, the text before
\* the opener is kept, every following line is dropped up to the first line
\* holding the closer at any column, column 0 included, the text after the
\* closer is kept, and the lines after it are processed normally.
C11_BlockCommentDiscardsToCloser ==
    (last.op = "clean_text" /\ IsBlockText(last.arg))
        => last.ret = ClaimBlock(last.arg)

\* The continuation groups of a text as the claim describes them: the
\* continued lines and the line that ends them make one line of their
\* trimmed contents joined by single spaces; a line outside a group is kept.
JoinStep(st, line) ==
    IF IsContinued(line)
        THEN [out |-> st.out,
              pending |-> Append(st.pending, Strip(RStripChar(line, "\\")))]
    ELSE IF st.pending # <<>>
        THEN [out |-> st.out
                        \o Join(Append(st.pending, Strip(line)), <<" ">>)
                        \o <<"\n">>,
              pending |-> <<>>]
    ELSE [out |-> st.out \o line \o <<"\n">>, pending |-> <<>>]

RECURSIVE JoinLoop(_, _)
JoinLoop(st, lines) ==
    IF lines = <<>> THEN st
    ELSE JoinLoop(JoinStep(st, Head(lines)), Tail(lines))

ClaimJoined(text) ==
    RStrip(JoinLoop([out |-> <<>>, pending |-> <<>>], LinesOf(text)).out)

\* The texts of the claim: non-blank lines holding no comment, at least one
\* of them continued, the last one not continued.
IsContinuationText(text) ==
    /\ \A i \in 1..Len(LinesOf(text)) :
          /\ LinesOf(text)[i] # <<>>
          /\ ~Contains(LinesOf(text)[i], kOpen)
          /\ ~Contains(LinesOf(text)[i], kClose)
    /\ \E i \in 1..Len(LinesOf(text)) : IsContinued(LinesOf(text)[i])
    /\ ~IsContinued(LinesOf(text)[Len(LinesOf(text))])

\* C12: N >= 1 consecutive lines ending in a backslash and the line that
\* follows them, none holding a comment, become one line: their contents,
\* each trimmed of its backslash and of leading and trailing whitespace,
\* joined by single spaces; the text after it starts a new line.
C12_ContinuedLinesJoinTrimmed ==
    (last.op = "clean_text" /\ IsContinuationText(last.arg))
        => last.ret = ClaimJoined(last.arg)

\* The texts of the claim: no comment opener or closer and no continued line.
IsPlainText(text) ==
    /\ ~Contains(text, kOpen)
    /\ ~Contains(text, kClose)
    /\ \A i \in 1..Len(LinesOf(text)) : ~IsContinued(LinesOf(text)[i])

\* the lines of a text without its trailing blank lines
RECURSIVE DropTrailingBlank(_)
DropTrailingBlank(lines) ==
    IF lines = <<>> THEN <<>>
    ELSE IF Strip(lines[Len(lines)]) = <<>>
        THEN DropTrailingBlank(SubSeq(lines, 1, Len(lines) - 1))
    ELSE lines

\* the non-empty lines of a text, in order
NonEmptyLines(text) ==
    LET NonEmpty(line) == line # <<>>
    IN  SelectSeq(LinesOf(text), NonEmpty)

\* C13 as stated: a text with no comment and no continued line is returned
\* unchanged but for its trailing blank lines; blank lines between other
\* lines stay in place.
C13_PlainTextUnchanged ==
    (last.op = "clean_text" /\ IsPlainText(last.arg))
        => last.ret = JoinLines(DropTrailingBlank(LinesOf(last.arg)))

\* C13: for a text with no comment and no continued line clean_text returns
\* the non-empty lines of the text, in order and each with its content
\* intact, one per line, with trailing whitespace trimmed from the end of
\* the result; every empty line is removed, wherever it stands.
C13_PlainTextKeepsNonEmptyLines ==
    (last.op = "clean_text" /\ IsPlainText(last.arg))
        => last.ret = RStrip(JoinLines(NonEmptyLines(last.arg)))

\* an empty line between two kept lines has been removed
C13_Witness ==
    /\ last.op = "clean_text"
    /\ last.arg = JoinLines(<<cAbc, cBlank, cIndent>>)
    /\ last.ret = JoinLines(<<cAbc, cIndent>>)

\* A line with every comment that opens and closes on it removed as the
\* claim describes: the text before and the text after joined by one space,
\* the whitespace next to the comment trimmed.
RECURSIVE StripComments(_)
StripComments(line) ==
    LET start == Find(line, kOpen)
        rest  == Drop(line, start + 2)
        end   == Find(rest, kClose)
    IN  IF start < 0 \/ end < 0 THEN line
        ELSE RStrip(Take(line, start)) \o <<" ">>
                 \o StripComments(LStrip(Drop(rest, end + 2)))

\* The texts of the claim: non-empty lines, none continued, every comment
\* closed on the line that opens it, at least one line holding a comment.
IsInlineText(text) ==
    /\ \A i \in 1..Len(LinesOf(text)) :
          /\ LinesOf(text)[i] # <<>>
          /\ ~IsContinued(LinesOf(text)[i])
          /\ ~Contains(StripComments(LinesOf(text)[i]), kOpen)
          /\ ~Contains(StripComments(LinesOf(text)[i]), kClose)
    /\ \E i \in 1..Len(LinesOf(text)) : HasInlineComment(LinesOf(text)[i])

ClaimInline(text) ==
    RStrip(JoinLines([i \in 1..Len(LinesOf(text)) |->
                         StripComments(LinesOf(text)[i])]))

\* C14: a comment that opens and closes on one line is removed and the text
\* before and after it is joined by exactly one space, the rest of the line
\* and of the text unchanged; this holds for every such comment on the line,
\* and the scanner ends outside any comment.
C14_InlineCommentsRemoved ==
    (last.op = "clean_text" /\ IsInlineText(last.arg))
        => /\ last.ret = ClaimInline(last.arg)
           /\ last.block = FALSE

-----------------------------------------------------------------------------
(* Properties of defined_tokens and find_ifdefs (specification SpecScan).  *)

\* a name: one or more characters, none of them a parenthesis
IsName(t) == t # <<>> /\ "(" \notin Range(t) /\ ")" \notin Range(t)

\* the token defined(NAME)
IsJoinedRef(t) ==
    /\ StartsWith(t, kDefined \o <<"(">>)
    /\ EndsWith(t, <<")">>)
    /\ IsName(SubSeq(t, 9, Len(t) - 1))

\* the token (NAME)
IsParenName(t) ==
    /\ StartsWith(t, <<"(">>)
    /\ EndsWith(t, <<")">>)
    /\ IsName(SubSeq(t, 2, Len(t) - 1))

IsBoolOp(t) == t = <<"&", "&">> \/ t = <<"|", "|">>

\* The references of a token list of the form ref (op ref)*: whether the
\* list has that form, and the names referred to, left to right.
RECURSIVE ParseRefs(_)
ParseRefs(tokens) ==
    LET After(rest, name) ==
            IF rest = <<>> THEN [ok |-> TRUE, names |-> <<name>>]
            ELSE IF IsBoolOp(Head(rest))
                THEN [ok |-> ParseRefs(Tail(rest)).ok,
                      names |-> <<name>> \o ParseRefs(Tail(rest)).names]
            ELSE [ok |-> FALSE, names |-> <<>>]
    IN  IF tokens = <<>> THEN [ok |-> FALSE, names |-> <<>>]
        ELSE IF IsJoinedRef(Head(tokens))
            THEN After(Tail(tokens), SubSeq(Head(tokens), 9, Len(Head(tokens)) - 1))
        ELSE IF Head(tokens) = kDefined /\ Len(tokens) >= 2 /\ IsParenName(tokens[2])
            THEN After(Tail(Tail(tokens)), SubSeq(tokens[2], 2, Len(tokens[2]) - 1))
        ELSE [ok |-> FALSE, names |-> <<>>]

\* the references of a line: those of its tokens after the directive keyword
LineRefs(line) ==
    IF Split(line) # <<>> /\ Head(Split(line)) \in {kIf, kElif}
        THEN ParseRefs(Tail(Split(line)))
        ELSE ParseRefs(Split(line))

\* the walker's state after the first n tokens of a line
WalkerAfter(line, n) ==
    DefinedLoop([definition |-> FALSE, yields |-> <<>>],
                SubSeq(Split(line), 1, n))

\* C15: on a line whose tokens are k references, each written defined(NAME)
\* or defined followed by (NAME), joined by && or ||, defined_tokens yields
\* exactly the k names from left to right, and the walker is idle after
\* every token on which it yields.
C15_DefinedTokensYieldsReferencesInOrder ==
    (last.op = "defined_tokens" /\ LineRefs(last.arg).ok)
        => /\ last.ret = LineRefs(last.arg).names
           /\ \A n \in 1..Len(Split(last.arg)) :
                  Len(WalkerAfter(last.arg, n).yields)
                          > Len(WalkerAfter(last.arg, n - 1).yields)
                      => ~WalkerAfter(last.arg, n).definition

\* three references in both spellings, yielded in order
C15_Witness ==
    /\ last.op = "defined_tokens"
    /\ last.arg = JoinLines(<<sIfMixed, sOrDef>>)
    /\ last.ret = <<mB, mA, mH>>

-----------------------------------------------------------------------------
(* Properties of a run of main (specification SpecMain).                   *)

\* the calls the claim has a run make on a diff, in order
ClaimTrace(retiredFile, diff) ==
    <<[op |-> "load_retired", arg |-> retiredFile],
      [op |-> "wrapped_files", arg |-> diff]>>
    \o [i \in 1..Len(get_added_files(diff).yields) |->
           [op |-> "inspect_file", arg |-> get_added_files(diff).yields[i]]]
    \o <<[op |-> "errors", arg |-> <<>>]>>

\* C16: a run of main calls load_retired once, then wrapped_files once on
\* the diff, then inspect_file once for each path get_added_files yields on
\* that diff, and only then reads errors; it exits with status 1 if and only
\* if errors is truthy at that point, and otherwise returns after logging
\* 'no problems found'.
C16_MainRunsStepsThenExitsByErrors ==
    run.pc = "ended"
        => /\ run.trace = ClaimTrace(run.retiredFile, run.diff)
           /\ run.outcome \in {"SystemExit(1)", "returned"}
           /\ run.outcome = "SystemExit(1)" <=> Truthy(errors)
           /\ run.outcome = "returned" => run.log = <<"no problems found">>

-----------------------------------------------------------------------------
(* Properties of load_retired (specification Spec).                        *)

\* the entries the claim has a retired file hold: its non-blank lines, each
\* trimmed of surrounding whitespace, in file order
RECURSIVE ClaimEntries(_)
ClaimEntries(lines) ==
    IF lines = <<>> THEN <<>>
    ELSE IF \A i \in 1..Len(Head(lines)) : IsSpace(Head(lines)[i])
        THEN ClaimEntries(Tail(lines))
    ELSE <<Strip(Head(lines))>> \o ClaimEntries(Tail(lines))

\* C17: load_retired sets the retired list to exactly the non-blank lines of
\* the file, each trimmed of surrounding whitespace, in file order, and
\* discards the list loaded before: after load_retired(A) then
\* load_retired(B) the list holds the entries of B only.
C17_LoadRetiredReplacesList ==
    last.op = "load_retired" => retired = ClaimEntries(LinesOf(last.arg))

\* a second list has been loaded over one a file was inspected under
C17_Witness ==
    /\ last.op = "load_retired"
    /\ last.arg = RetiredB
    /\ retired = <<mB, mAB>>
    /\ \E h \in inspected : h.list = <<mA>>

-----------------------------------------------------------------------------
(* Further properties of the diff scanners (specification SpecDiff).       *)

\* C18: wrapped_files records a file only if the file name on its "+++"
\* line ends with the suffix ".F90": a name with any other suffix is never
\* recorded, even when ".F90" occurs elsewhere in the name or the header
\* line and the header is followed by a "+1," hunk header and a "+#if" line.
C18_OnlyF90SuffixRecorded ==
    last.op = "wrapped_files"
        => \A i \in 1..Len(wrapped) : EndsWith(wrapped[i], kF90)

-----------------------------------------------------------------------------
(* Further properties of find_ifdefs (specification SpecScan).             *)

\* the last line of a text, trimmed as find_ifdefs trims it
LastLine(text) == Strip(LinesOf(text)[Len(LinesOf(text))])

\* the text before the last line
BeforeLastLine(text) ==
    JoinLines(SubSeq(LinesOf(text), 1, Len(LinesOf(text)) - 1))

=============================================================================
